---- MODULE Spec2Model ----
(***************************************************************************)
(* Model of the SPIKE Prime BLE backend (src/backend/backendAPI):          *)
(*   cobs.py  - byte stuffing (encode/decode) and framing (pack/unpack)    *)
(*   crc.py   - zero-padded CRC32 with seed                                *)
(*   app.py   - request/response correlation and the file upload script    *)
(* Bytes are integers 0..255, byte strings are sequences (1-based).        *)
(***************************************************************************)
EXTENDS Integers, Sequences, FiniteSets, TLC

VARIABLES
    \* --- codec harness (cobs.py applied to an input) ---
    data,        \* the byte sequence the codec functions are applied to
    buffer,      \* result of the last codec function applied
    stage,       \* which function produced buffer
    \* --- checksum harness (crc.py applied to a split input) ---
    s1, s2,      \* the two parts of the input
    whole,       \* crc(s1 + s2, 0)
    running,     \* crc(s1, 0), then crc(s2, crc(s1, 0))
    crc_stage,
    \* --- app.py: the main coroutine ---
    pc,               \* where the coroutine is: main, sending, awaiting, stop_wait,
                      \* completed, exited (sys.exit), write_failed, raised
    request,          \* ID of the request send_request was last called with
    tx_frame, offset,    \* send_message: the packed frame and the bytes written so far
    awaited,          \* the future the coroutine awaits (0: none)
    upload_i, running_crc, \* file_upload: chunk offset i and running checksum
    \* --- app.py: globals ---
    pending_response, \* (expected response ID, future)
    futures,          \* the live asyncio.Future objects by identity
    nfut,             \* number of futures created so far
    info_response,
    program,          \* EXAMPLE_PROGRAM
    connected,        \* the BLE connection is up
    stop_event,
    \* --- history ---
    sent,             \* the messages main passed to send_request, in order
    returned,         \* the responses send_request returned to its caller, in order
    on_data_error,    \* exception that escaped the last on_data call, or "none"
    last_in,          \* the last on_data call: ID of the message it deserialized (-1:
                      \* none), the pending future it was compared against, and
                      \* whether the packet ended in a delimiter
    lost_at,          \* pc of the main coroutine when on_disconnect ran ("": not yet)
    \* --- main.py: the coroutine of a /run-code request (file_upload) ---
    pc2,              \* idle, sending, awaiting, returned, exited, raised, write_failed
    request2,         \* ID of the request it last called send_request with
    tx_frame2, offset2,  \* its send_message: the packed frame, the bytes written so far
    awaited2,         \* the future it awaits (0: none)
    upload_i2, running_crc2 \* its file_upload: chunk offset i and running checksum

codec_vars == <<data, buffer, stage>>
crc_vars == <<s1, s2, whole, running, crc_stage>>
app_vars == <<pc, request, tx_frame, offset, awaited, upload_i, running_crc,
              pending_response, futures, nfut, info_response, program, connected, stop_event, sent,
              returned, on_data_error, last_in, lost_at,
              pc2, request2, tx_frame2, offset2, awaited2, upload_i2, running_crc2>>
run_vars == <<pc2, request2, tx_frame2, offset2, awaited2, upload_i2, running_crc2>>
vars == <<data, buffer, stage, s1, s2, whole, running, crc_stage,
          pc, request, tx_frame, offset, awaited, upload_i, running_crc,
          pending_response, futures, nfut, info_response, program, connected, stop_event, sent,
          returned, on_data_error, last_in, lost_at,
          pc2, request2, tx_frame2, offset2, awaited2, upload_i2, running_crc2>>

(***************************************************************************)
(* Bounds of the model and sample alphabets                                *)
(***************************************************************************)
MaxSegs == 3
MaxCrcLen == 6
MaxProgramLen == 6
MaxOverlapLen == 1
MaxChunkSize == 4
SmallPacketSize == 8
LargePacketSize == 20

\* ------------------------------------------------------------------------
\* cobs.py constants
\* ------------------------------------------------------------------------
DELIMITER == 2
NO_DELIMITER == 255
COBS_CODE_OFFSET == DELIMITER
MAX_BLOCK_SIZE == 84
XOR == 3

\* ------------------------------------------------------------------------
\* Bit operations on bytes (Python's ^ on ints 0..255)
\* ------------------------------------------------------------------------
RECURSIVE bxor(_, _, _)
bxor(a, b, n) ==
    IF n = 0 THEN 0
    ELSE (((a % 2) + (b % 2)) % 2) + (2 * bxor(a \div 2, b \div 2, n - 1))

xor8(a, b) == bxor(a, b, 8)

\* Result of a function that may raise: err = "none" and the value, or the
\* name of the exception that escapes.
Ok(v) == [err |-> "none", value |-> v]
Raise(e) == [err |-> e, value |-> <<>>]

\* ------------------------------------------------------------------------
\* cobs.encode
\* ------------------------------------------------------------------------
\* begin_block(): code_index = len(buffer); buffer.append(NO_DELIMITER); block = 1
begin_block(buf) ==
    [buffer |-> Append(buf, NO_DELIMITER), code_index |-> Len(buf) + 1, block |-> 1]

\* 4.1: code word of a block that ends with a delimiter-class byte
delimiter_code_nooffset(byte, block) == byte * MAX_BLOCK_SIZE + block
delimiter_code(byte, block) ==
    LET delimiter_base == byte * MAX_BLOCK_SIZE
        block_offset == block + COBS_CODE_OFFSET
    IN  delimiter_base + block_offset

\* a block closed when it is MAX_BLOCK_SIZE bytes long, code word included
block_complete_at_max(byte, block) == byte <= DELIMITER \/ block >= MAX_BLOCK_SIZE
\* the condition of step 4: the block is complete
block_complete(byte, block) == byte <= DELIMITER \/ block > MAX_BLOCK_SIZE

\* one iteration of the for loop over the data bytes; st = [buffer, code_index, block]
encode_step(st, byte) ==
    LET buf1 == IF byte > DELIMITER THEN Append(st.buffer, byte) ELSE st.buffer
        blk1 == IF byte > DELIMITER THEN st.block + 1 ELSE st.block
    IN  IF block_complete(byte, blk1)
        THEN LET buf2 == IF byte <= DELIMITER
                         THEN [buf1 EXCEPT ![st.code_index] = delimiter_code(byte, blk1)]
                         ELSE buf1
             IN  begin_block(buf2)
        ELSE [buffer |-> buf1, code_index |-> st.code_index, block |-> blk1]

\* for byte in data: over d[lo..hi]. The range is halved and the state after the
\* first half is evaluated (its block counter read) before the second half
\* starts, which keeps the evaluation shallow for long inputs.
RECURSIVE encode_loop(_, _, _, _)
encode_loop(d, lo, hi, st) ==
    IF lo > hi THEN st
    ELSE IF lo = hi THEN encode_step(st, d[lo])
    ELSE LET mid == (lo + hi) \div 2
             left == encode_loop(d, lo, mid, st)
         IN  IF left.block >= 1 THEN encode_loop(d, mid + 1, hi, left) ELSE left

encode(d) ==
    LET st == encode_loop(d, 1, Len(d), begin_block(<<>>))
    IN  [st.buffer EXCEPT ![st.code_index] = st.block + COBS_CODE_OFFSET]

\* ------------------------------------------------------------------------
\* cobs.decode
\* ------------------------------------------------------------------------
\* unescape(code) -> (value, block); has = FALSE stands for value None
unescape_noadjust(code) ==
    IF code = 255
    THEN [has |-> FALSE, value |-> 0, block |-> MAX_BLOCK_SIZE + 1]
    ELSE [has |-> TRUE, value |-> (code - COBS_CODE_OFFSET) \div MAX_BLOCK_SIZE,
          block |-> (code - COBS_CODE_OFFSET) % MAX_BLOCK_SIZE]
unescape(code) ==
    IF code = 255
    THEN [has |-> FALSE, value |-> 0, block |-> MAX_BLOCK_SIZE + 1]
    ELSE LET value == (code - COBS_CODE_OFFSET) \div MAX_BLOCK_SIZE
             block == (code - COBS_CODE_OFFSET) % MAX_BLOCK_SIZE
         IN  IF block = 0
             THEN [has |-> TRUE, value |-> value - 1, block |-> MAX_BLOCK_SIZE]
             ELSE [has |-> TRUE, value |-> value, block |-> block]

\* one iteration of the loop over data[1:]; st = [err, has, value, block, buffer].
\* bytearray.append raises ValueError for a value outside 0..255.
decode_step(st, byte) ==
    IF st.err # "none" THEN st
    ELSE LET block == st.block - 1
         IN  IF block > 0
             THEN [st EXCEPT !.block = block, !.buffer = Append(st.buffer, byte)]
             ELSE IF st.has /\ (st.value < 0 \/ st.value > 255)
                  THEN [st EXCEPT !.err = "ValueError"]
                  ELSE LET next == unescape(byte)
                       IN  [err |-> "none", has |-> next.has, value |-> next.value,
                            block |-> next.block,
                            buffer |-> IF st.has THEN Append(st.buffer, st.value)
                                       ELSE st.buffer]

RECURSIVE decode_loop(_, _, _, _)
decode_loop(d, lo, hi, st) ==
    IF lo > hi THEN st
    ELSE IF lo = hi THEN decode_step(st, d[lo])
    ELSE LET mid == (lo + hi) \div 2
             left == decode_loop(d, lo, mid, st)
         IN  IF left.err = "none" THEN decode_loop(d, mid + 1, hi, left) ELSE left

\* data[0] of an empty input raises IndexError
decode(d) ==
    IF Len(d) = 0 THEN Raise("IndexError")
    ELSE LET first == unescape(d[1])
             st == decode_loop(d, 2, Len(d),
                               [err |-> "none", has |-> first.has, value |-> first.value,
                                block |-> first.block, buffer |-> <<>>])
         IN  IF st.err = "none" THEN Ok(st.buffer) ELSE Raise(st.err)

\* ------------------------------------------------------------------------
\* cobs.pack / cobs.unpack
\* ------------------------------------------------------------------------
pack_nodelimiter(d) ==
    LET enc == encode(d) IN [i \in 1..Len(enc) |-> xor8(enc[i], XOR)]
\* a pack that masks with the delimiter value instead of XOR
pack_maskdelimiter(d) ==
    LET enc == encode(d)
    IN  Append([i \in 1..Len(enc) |-> xor8(enc[i], DELIMITER)], DELIMITER)
pack(d) ==
    LET enc == encode(d)
    IN  Append([i \in 1..Len(enc) |-> xor8(enc[i], XOR)], DELIMITER)

\* frame[0] of an empty frame raises IndexError
unpack_keepdelimiter(frame) ==
    IF Len(frame) = 0 THEN Raise("IndexError")
    ELSE decode([i \in 1..Len(frame) |-> xor8(frame[i], XOR)])
\* step 1 of unpack: the start index, past a priority byte 0x01
start_index(frame) == IF frame[1] = 1 THEN 1 ELSE 0

unpack(frame) ==
    IF Len(frame) = 0 THEN Raise("IndexError")
    ELSE LET start == start_index(frame)
             unframed == [i \in 1..(Len(frame) - 1 - start) |-> xor8(frame[i + start], XOR)]
         IN  decode(unframed)

\* ------------------------------------------------------------------------
\* crc.py
\* ------------------------------------------------------------------------
\* A 32-bit unsigned value as two 16-bit halves (hi * 65536 + lo).
Word(h, l) == [hi |-> h, lo |-> l]

xor16(a, b) == bxor(a, b, 16)

\* binascii.crc32: the reflected CRC-32 polynomial 0xEDB88320
CRC32_POLY == Word(60856, 33568)
ALL_ONES == 65535

\* one bit of the CRC register: shift right, xor the polynomial if a 1 fell out
crc32_shift(c) ==
    LET lo1 == (c.lo \div 2) + ((c.hi % 2) * 32768)
        hi1 == c.hi \div 2
    IN  IF c.lo % 2 = 1
        THEN Word(xor16(hi1, CRC32_POLY.hi), xor16(lo1, CRC32_POLY.lo))
        ELSE Word(hi1, lo1)

RECURSIVE crc32_bits(_, _)
crc32_bits(c, n) == IF n = 0 THEN c ELSE crc32_bits(crc32_shift(c), n - 1)

\* one byte: xor into the low byte of the register, then eight shifts
crc32_byte(c, byte) == crc32_bits(Word(c.hi, xor16(c.lo, byte)), 8)

\* for each byte of the data. The register is read at every byte (it never
\* exceeds 32 bits), so that it is evaluated before the next byte is taken.
RECURSIVE crc32_loop(_, _, _)
crc32_loop(d, i, c) ==
    IF i > Len(d) \/ c.hi > ALL_ONES THEN c
    ELSE crc32_loop(d, i + 1, crc32_byte(c, d[i]))

\* binascii.crc32(data, seed): the register starts at ~seed, the result is ~register
crc32(d, seed) ==
    LET c == crc32_loop(d, 1, Word(xor16(seed.hi, ALL_ONES), xor16(seed.lo, ALL_ONES)))
    IN  Word(xor16(c.hi, ALL_ONES), xor16(c.lo, ALL_ONES))

CRC_ALIGN == 4

\* data += b"\x00" * (align - remainder) when remainder is not 0
pad_always(d, align) == d \o [i \in 1..(align - (Len(d) % align)) |-> 0]
pad(d, align) ==
    LET remainder == Len(d) % align
    IN  IF remainder # 0 THEN d \o [i \in 1..(align - remainder) |-> 0] ELSE d

\* crc(data, seed=0, align=4)
crc_noseed(d, seed) == crc32(pad(d, CRC_ALIGN), Word(0, 0))
crc(d, seed) == crc32(pad(d, CRC_ALIGN), seed)

\* ------------------------------------------------------------------------
\* messages (MessageCodec): the catalogue, serialize and deserialize
\* ------------------------------------------------------------------------
InfoRequest_ID == 0
InfoResponse_ID == 1
StartFileUploadRequest_ID == 12
StartFileUploadResponse_ID == 13
TransferChunkRequest_ID == 16
TransferChunkResponse_ID == 17
ProgramFlowRequest_ID == 30
ProgramFlowResponse_ID == 31
DeviceNotificationRequest_ID == 40
DeviceNotificationResponse_ID == 41
DeviceNotification_ID == 60
ClearSlotRequest_ID == 70
ClearSlotResponse_ID == 71

\* response kinds that carry only a success flag
StatusResponseIDs ==
    {StartFileUploadResponse_ID, TransferChunkResponse_ID, ProgramFlowResponse_ID,
     DeviceNotificationResponse_ID, ClearSlotResponse_ID}

\* a message object; fields a kind does not have keep their default
Message(id) ==
    [ID |-> id, success |-> FALSE, max_packet_size |-> 0, max_chunk_size |-> 0,
     crc |-> Word(0, 0), payload |-> <<>>]
None == Message(-1)

\* the four bytes of a 32-bit value, least significant first
le32(w) == <<w.lo % 256, w.lo \div 256, w.hi % 256, w.hi \div 256>>

\* serialize: identifier byte, then the fields of the kind
serialize(m) ==
    CASE m.ID = InfoRequest_ID -> <<m.ID>>
      [] m.ID = DeviceNotificationRequest_ID -> <<m.ID>> \o m.payload
      [] m.ID = ClearSlotRequest_ID -> <<m.ID>> \o m.payload
      [] m.ID = StartFileUploadRequest_ID -> <<m.ID>> \o m.payload \o le32(m.crc)
      [] m.ID = TransferChunkRequest_ID ->
            <<m.ID>> \o le32(m.crc) \o <<Len(m.payload) % 256, Len(m.payload) \div 256>>
                     \o m.payload
      [] m.ID = ProgramFlowRequest_ID -> <<m.ID>> \o m.payload
      [] m.ID = InfoResponse_ID -> <<m.ID, m.max_packet_size, m.max_chunk_size>>
      [] m.ID \in StatusResponseIDs -> <<m.ID, IF m.success THEN 0 ELSE 1>>
      [] OTHER -> <<m.ID>> \o m.payload

\* deserialize: ValueError for an unknown kind or a payload that does not fit
deserialize(d) ==
    IF Len(d) = 0 THEN Raise("ValueError")
    ELSE IF d[1] = InfoResponse_ID
         THEN IF Len(d) = 3
              THEN Ok([Message(d[1]) EXCEPT !.success = TRUE, !.max_packet_size = d[2],
                                            !.max_chunk_size = d[3]])
              ELSE Raise("ValueError")
    ELSE IF d[1] \in StatusResponseIDs
         THEN IF Len(d) = 2
              THEN Ok([Message(d[1]) EXCEPT !.success = (d[2] = 0)])
              ELSE Raise("ValueError")
    ELSE IF d[1] = DeviceNotification_ID
         THEN Ok([Message(d[1]) EXCEPT !.payload = Tail(d)])
    ELSE Raise("ValueError")

\* ------------------------------------------------------------------------
\* app.py: constants and request constructors
\* ------------------------------------------------------------------------
DEVICE_NOTIFICATION_INTERVAL_MS == 5000
EXAMPLE_SLOT == 0

\* the first bytes of EXAMPLE_PROGRAM ("import runloop\nimport ti...")
ProgramText ==
    <<105, 109, 112, 111, 114, 116, 32, 114, 117, 110, 108, 111, 111, 112, 10,
      105, 109, 112, 111, 114, 116, 32, 116, 105>>

\* "program.py"
FileName == <<112, 114, 111, 103, 114, 97, 109, 46, 112, 121>>

InfoRequest == Message(InfoRequest_ID)
DeviceNotificationRequest(interval_ms) ==
    [Message(DeviceNotificationRequest_ID) EXCEPT
        !.payload = <<interval_ms % 256, interval_ms \div 256>>]
ClearSlotRequest(slot) == [Message(ClearSlotRequest_ID) EXCEPT !.payload = <<slot>>]
StartFileUploadRequest(name, slot, c) ==
    [Message(StartFileUploadRequest_ID) EXCEPT
        !.payload = name \o <<0>> \o <<slot>>, !.crc = c]
TransferChunkRequest(c, chunk) ==
    [Message(TransferChunkRequest_ID) EXCEPT !.crc = c, !.payload = chunk]
ProgramFlowRequest(stop, slot) ==
    [Message(ProgramFlowRequest_ID) EXCEPT !.payload = <<IF stop THEN 1 ELSE 0, slot>>]

\* a future: not done, or done with a result
NewFuture == [done |-> FALSE, result |-> None]

Min(a, b) == IF a < b THEN a ELSE b

\* EXAMPLE_PROGRAM[n : n + size] with a 0-based offset n
chunk_from1(p, n, size) == SubSeq(p, n + 2, Min(n + size + 1, Len(p)))
chunk_at(p, n, size) == SubSeq(p, n + 1, Min(n + size, Len(p)))

\* ------------------------------------------------------------------------
\* app.py: inbound packets the transport may deliver
\* ------------------------------------------------------------------------
PacketSizes == {SmallPacketSize, LargePacketSize}
ChunkSizes == 1..MaxChunkSize

InboundMessages ==
    {[Message(InfoResponse_ID) EXCEPT !.success = TRUE, !.max_packet_size = ps,
                                      !.max_chunk_size = cs] :
        ps \in PacketSizes, cs \in ChunkSizes}
    \cup {[Message(id) EXCEPT !.success = ok] : id \in StatusResponseIDs, ok \in BOOLEAN}
    \cup {[Message(DeviceNotification_ID) EXCEPT !.payload = <<0, 7>>]}

\* a frame without its last byte
cut(f) == SubSeq(f, 1, Len(f) - 1)

\* bytes that do not end in a delimiter, frames cut before their delimiter, a
\* bare delimiter, a frame whose first code word is below the code offset, an
\* unknown kind
MalformedPackets ==
    { <<3, 2, 1>>,
      cut(pack(serialize([Message(TransferChunkResponse_ID) EXCEPT !.success = TRUE]))),
      cut(pack(serialize([Message(DeviceNotification_ID) EXCEPT !.payload = <<0, 7>>]))),
      <<DELIMITER>>,
      <<XOR>> \o [k \in 1..(MAX_BLOCK_SIZE - 1) |-> 7] \o <<DELIMITER>>,
      pack(<<99, 0>>) }

InboundPackets == {pack(serialize(m)) : m \in InboundMessages} \cup MalformedPackets

\* ------------------------------------------------------------------------
\* app.py: on_data
\* ------------------------------------------------------------------------
\* message.ID == pending_response[0]
matches_any(message, pending) == TRUE
matches(message, pending) == message.ID = pending.id

\* an on_data without the test of the last byte
receive_unchecked(packet) ==
    LET unpacked == unpack(packet)
    IN  IF unpacked.err # "none"
        THEN [error |-> unpacked.err, message |-> None]
        ELSE LET des == deserialize(unpacked.value)
             IN  IF des.err = "ValueError"
                 THEN [error |-> "none", message |-> None]
                 ELSE [error |-> "none", message |-> des.value]

\* on_data up to the deserialized message (lines 121-133): [error, message]
\*   error   - the exception that escapes the handler ("none": none so far)
\*   message - the deserialized message; None when the packet was dropped
\*             (no delimiter at its end, or ValueError caught)
receive(packet) ==
    IF packet[Len(packet)] # DELIMITER
    THEN [error |-> "none", message |-> None]
    ELSE LET unpacked == unpack(packet)
         IN  IF unpacked.err # "none"
             THEN [error |-> unpacked.err, message |-> None]
             ELSE LET des == deserialize(unpacked.value)
                  IN  IF des.err = "ValueError"
                      THEN [error |-> "none", message |-> None]
                      ELSE [error |-> "none", message |-> des.value]

\* receive, tabulated over the packets of the model
Received == [packet \in InboundPackets |-> receive(packet)]

\* What on_data does with one packet: [error, message, resolve]
\*   resolve - whether pending_response[1].set_result(message) is called;
\*             set_result on a future that is done raises InvalidStateError
handle(packet, pending, fut) ==
    LET r == Received[packet]
    IN  IF r.message # None /\ matches(r.message, pending)
        THEN IF fut.done
             THEN [error |-> "InvalidStateError", message |-> r.message, resolve |-> FALSE]
             ELSE [error |-> "none", message |-> r.message, resolve |-> TRUE]
        ELSE [error |-> r.error, message |-> r.message, resolve |-> FALSE]

on_data(packet) ==
    /\ connected
    /\ LET h == handle(packet, pending_response, futures[pending_response.fut])
       IN  /\ futures' = IF h.resolve
                         THEN [futures EXCEPT ![pending_response.fut] =
                                  [done |-> TRUE, result |-> h.message]]
                         ELSE futures
           /\ on_data_error' = h.error
           /\ last_in' = [ID |-> h.message.ID, fut |-> pending_response.fut,
                          delimited |-> packet[Len(packet)] = DELIMITER]
    /\ UNCHANGED <<pc, request, tx_frame, offset, awaited, pending_response, nfut,
                   info_response, program, upload_i, running_crc, sent, connected, stop_event,
                   lost_at>>
    /\ UNCHANGED returned
    /\ UNCHANGED <<codec_vars, crc_vars, run_vars>>

OnData == \E packet \in InboundPackets : on_data(packet)

\* ------------------------------------------------------------------------
\* app.py: on_disconnect
\* ------------------------------------------------------------------------
on_disconnect ==
    /\ connected
    /\ connected' = FALSE
    /\ stop_event' = TRUE
    /\ lost_at' = pc
    /\ UNCHANGED <<pc, request, tx_frame, offset, awaited, pending_response, futures, nfut,
                   info_response, program, upload_i, running_crc, sent, on_data_error,
                   last_in>>
    /\ UNCHANGED returned
    /\ UNCHANGED <<codec_vars, crc_vars, run_vars>>

\* ------------------------------------------------------------------------
\* app.py: send_request / send_message
\* ------------------------------------------------------------------------
\* packet_size = info_response.max_packet_size if info_response else len(frame)
packet_size(info, f) == IF info # None THEN info.max_packet_size ELSE Len(f)

\* a send_request that writes without having recorded what it expects
send_request_unrecorded(message, response_id, info) ==
    LET f == pack(serialize(message))
    IN  /\ UNCHANGED <<pending_response, futures, nfut>>
        /\ tx_frame' = f
        /\ offset' = packet_size(info, f)
        /\ request' = message.ID
        /\ sent' = Append(sent, message)
        /\ awaited' = 0
        /\ pc' = "sending"

\* the future another coroutine awaits stays alive when the slot is replaced
Kept(other) == [f \in (DOMAIN futures) \cap {other} |-> futures[f]]

\* info_response holds a response of another kind, without the fields of an
\* InfoResponse: reading its max_packet_size or max_chunk_size raises
not_info(info) == info # None /\ info.ID # InfoResponse_ID

\* send_request up to its first suspension: the pending slot is replaced, the
\* frame is packed and its first packet handed to write_gatt_char.
\* info is the info_response in force when the message is sent.
send_request(message, response_id, info) ==
    LET f == pack(serialize(message))
    IN  /\ pending_response' = [id |-> response_id, fut |-> nfut + 1]
        /\ futures' = ((nfut + 1) :> NewFuture) @@ Kept(awaited2)
        /\ nfut' = nfut + 1
        /\ tx_frame' = f
        /\ request' = message.ID
        /\ sent' = Append(sent, message)
        /\ awaited' = 0
        /\ IF not_info(info)
           THEN offset' = 0 /\ pc' = "raised"
           ELSE offset' = packet_size(info, f) /\ pc' = "sending"

\* write_gatt_char returns: the next packet is written, or the frame is out
\* and the caller awaits pending_response[1]
write_done ==
    /\ pc = "sending"
    /\ IF offset < Len(tx_frame)
       THEN /\ offset' = offset + packet_size(info_response, tx_frame)
            /\ UNCHANGED <<pc, awaited>>
       ELSE /\ pc' = "awaiting"
            /\ awaited' = pending_response.fut
            /\ UNCHANGED offset
    /\ UNCHANGED <<request, tx_frame, pending_response, futures, nfut, info_response, program,
                   upload_i, running_crc, sent, connected, stop_event, on_data_error,
                   last_in, lost_at>>
    /\ UNCHANGED returned
    /\ UNCHANGED <<codec_vars, crc_vars, run_vars>>

\* write_gatt_char on a closed connection raises (bleak): the caller fails
write_failed ==
    /\ pc = "sending"
    /\ ~connected
    /\ pc' = "write_failed"
    /\ UNCHANGED <<request, tx_frame, offset, awaited, pending_response, futures, nfut,
                   info_response, program, upload_i, running_crc, sent, connected, stop_event,
                   on_data_error, last_in, lost_at>>
    /\ UNCHANGED returned
    /\ UNCHANGED <<codec_vars, crc_vars, run_vars>>

\* the awaited future is done: the caller resumes with its result
Resumed_nowait(id) == pc = "awaiting" /\ request = id
Resumed(id) == pc = "awaiting" /\ request = id /\ futures[awaited].done
Result == futures[awaited].result

\* if not start_upload_response.success / if not chunk_response.success
start_upload_failed_never(response) == FALSE
start_upload_failed(response) == ~response.success
chunk_failed_never(response) == FALSE
chunk_failed(response) == ~response.success

\* sys.exit(1)
sys_exit ==
    /\ pc' = "exited"
    /\ awaited' = 0
    /\ UNCHANGED <<request, tx_frame, offset, pending_response, futures, nfut, sent>>

\* ------------------------------------------------------------------------
\* app.py: main
\* ------------------------------------------------------------------------
main_info ==
    /\ pc = "main"
    /\ send_request(InfoRequest, InfoResponse_ID, info_response)
    /\ UNCHANGED <<info_response, program, upload_i, running_crc, connected, stop_event,
                   on_data_error, last_in, lost_at>>
    /\ UNCHANGED returned
    /\ UNCHANGED <<codec_vars, crc_vars, run_vars>>

main_notifications ==
    /\ Resumed(InfoRequest_ID)
    /\ info_response' = Result
    /\ send_request(DeviceNotificationRequest(DEVICE_NOTIFICATION_INTERVAL_MS),
                    DeviceNotificationResponse_ID, Result)
    /\ UNCHANGED <<program, upload_i, running_crc, connected, stop_event, on_data_error,
                   last_in, lost_at>>
    /\ returned' = Append(returned, Result)
    /\ UNCHANGED <<codec_vars, crc_vars, run_vars>>

\* ------------------------------------------------------------------------
\* app.py: file_upload
\* ------------------------------------------------------------------------
\* notification_response checked, then file_upload() sends the clear request
upload_clear ==
    /\ Resumed(DeviceNotificationRequest_ID)
    /\ IF ~Result.success
       THEN sys_exit
       ELSE send_request(ClearSlotRequest(EXAMPLE_SLOT), ClearSlotResponse_ID,
                         info_response)
    /\ UNCHANGED <<info_response, program, upload_i, running_crc, connected, stop_event,
                   on_data_error, last_in, lost_at>>
    /\ returned' = Append(returned, Result)
    /\ UNCHANGED <<codec_vars, crc_vars, run_vars>>

\* a file_upload that gives up when the slot could not be cleared
upload_start_strict ==
    /\ Resumed(ClearSlotRequest_ID)
    /\ IF ~Result.success
       THEN sys_exit
       ELSE send_request(StartFileUploadRequest(FileName, EXAMPLE_SLOT,
                                                crc(program, Word(0, 0))),
                         StartFileUploadResponse_ID, info_response)
    /\ UNCHANGED <<info_response, program, upload_i, running_crc, connected, stop_event,
                   on_data_error, last_in, lost_at>>
    /\ returned' = Append(returned, Result)
    /\ UNCHANGED <<codec_vars, crc_vars, run_vars>>

\* the clear response is not checked for success: a failure is a warning only
upload_start ==
    /\ Resumed(ClearSlotRequest_ID)
    /\ LET program_crc == crc(program, Word(0, 0))
       IN  send_request(StartFileUploadRequest(FileName, EXAMPLE_SLOT, program_crc),
                        StartFileUploadResponse_ID, info_response)
    /\ UNCHANGED <<info_response, program, upload_i, running_crc, connected, stop_event,
                   on_data_error, last_in, lost_at>>
    /\ returned' = Append(returned, Result)
    /\ UNCHANGED <<codec_vars, crc_vars, run_vars>>

\* one iteration of the chunk loop from offset n with running checksum c, or
\* the program start request when the range is exhausted
next_chunk(n, c) ==
    IF n < Len(program)
    THEN LET chunk == chunk_at(program, n, info_response.max_chunk_size)
             new_crc == crc(chunk, c)
         IN  /\ upload_i' = n
             /\ running_crc' = new_crc
             /\ send_request(TransferChunkRequest(new_crc, chunk),
                             TransferChunkResponse_ID, info_response)
    ELSE /\ send_request(ProgramFlowRequest(FALSE, EXAMPLE_SLOT), ProgramFlowResponse_ID,
                         info_response)
         /\ upload_i' = n
         /\ running_crc' = c

upload_first_chunk ==
    /\ Resumed(StartFileUploadRequest_ID)
    /\ IF start_upload_failed(Result)
       THEN sys_exit /\ UNCHANGED <<upload_i, running_crc>>
       ELSE next_chunk(0, Word(0, 0))
    /\ UNCHANGED <<info_response, program, connected, stop_event, on_data_error, last_in,
                   lost_at>>
    /\ returned' = Append(returned, Result)
    /\ UNCHANGED <<codec_vars, crc_vars, run_vars>>

upload_next_chunk ==
    /\ Resumed(TransferChunkRequest_ID)
    /\ IF chunk_failed(Result)
       THEN sys_exit /\ UNCHANGED <<upload_i, running_crc>>
       ELSE next_chunk(upload_i + info_response.max_chunk_size, running_crc)
    /\ UNCHANGED <<info_response, program, connected, stop_event, on_data_error, last_in,
                   lost_at>>
    /\ returned' = Append(returned, Result)
    /\ UNCHANGED <<codec_vars, crc_vars, run_vars>>

\* the program start response; then main waits for stop_event
upload_done ==
    /\ Resumed(ProgramFlowRequest_ID)
    /\ IF ~Result.success
       THEN sys_exit
       ELSE /\ pc' = "stop_wait"
            /\ awaited' = 0
            /\ UNCHANGED <<request, tx_frame, offset, pending_response, futures, nfut, sent>>
    /\ UNCHANGED <<info_response, program, upload_i, running_crc, connected, stop_event,
                   on_data_error, last_in, lost_at>>
    /\ returned' = Append(returned, Result)
    /\ UNCHANGED <<codec_vars, crc_vars, run_vars>>

\* await stop_event.wait() returns once the event is set
main_completed ==
    /\ pc = "stop_wait"
    /\ stop_event
    /\ pc' = "completed"
    /\ UNCHANGED <<request, tx_frame, offset, awaited, pending_response, futures, nfut,
                   info_response, program, upload_i, running_crc, sent, connected, stop_event,
                   on_data_error, last_in, lost_at>>
    /\ UNCHANGED returned
    /\ UNCHANGED <<codec_vars, crc_vars, run_vars>>

\* ------------------------------------------------------------------------
\* main.py: runCode, a file_upload that runs while main is suspended
\* ------------------------------------------------------------------------
\* what of main a step of runCode leaves alone; pc and awaited change when
\* sys.exit ends the process
MainUnchanged ==
    /\ UNCHANGED <<request, tx_frame, offset, upload_i, running_crc,
                   info_response, program, connected, stop_event, sent, returned,
                   on_data_error, last_in, lost_at>>
    /\ UNCHANGED <<codec_vars, crc_vars>>

\* a send_request that reuses the future of the slot instead of a new one
send_request2_shared(message, response_id, info) ==
    LET f == pack(serialize(message))
    IN  /\ pending_response' = [id |-> response_id, fut |-> pending_response.fut]
        /\ futures' = [g \in (DOMAIN futures) \cap {pending_response.fut, awaited}
                          |-> futures[g]]
        /\ nfut' = nfut
        /\ tx_frame2' = f
        /\ request2' = message.ID
        /\ awaited2' = 0
        /\ UNCHANGED <<pc, awaited>>
        /\ IF not_info(info)
           THEN offset2' = 0 /\ pc2' = "raised"
           ELSE offset2' = packet_size(info, f) /\ pc2' = "sending"

\* send_request, called by the coroutine of runCode
send_request2(message, response_id, info) ==
    LET f == pack(serialize(message))
    IN  /\ pending_response' = [id |-> response_id, fut |-> nfut + 1]
        /\ futures' = ((nfut + 1) :> NewFuture) @@ Kept(awaited)
        /\ nfut' = nfut + 1
        /\ tx_frame2' = f
        /\ request2' = message.ID
        /\ awaited2' = 0
        /\ UNCHANGED <<pc, awaited>>
        /\ IF not_info(info)
           THEN offset2' = 0 /\ pc2' = "raised"
           ELSE offset2' = packet_size(info, f) /\ pc2' = "sending"

write_done2 ==
    /\ pc2 = "sending"
    /\ pc # "exited"
    /\ IF offset2 < Len(tx_frame2)
       THEN /\ offset2' = offset2 + packet_size(info_response, tx_frame2)
            /\ UNCHANGED <<pc2, awaited2>>
       ELSE /\ pc2' = "awaiting"
            /\ awaited2' = pending_response.fut
            /\ UNCHANGED offset2
    /\ UNCHANGED <<request2, tx_frame2, upload_i2, running_crc2, pending_response, futures,
                   nfut, pc, awaited>>
    /\ MainUnchanged

Resumed2(id) == pc2 = "awaiting" /\ request2 = id /\ futures[awaited2].done
Result2 == futures[awaited2].result

\* sys.exit(1) in the coroutine of runCode: the process ends, and main with it
sys_exit2 ==
    /\ pc2' = "exited"
    /\ awaited2' = 0
    /\ pc' = "exited"
    /\ awaited' = 0
    /\ UNCHANGED <<request2, tx_frame2, offset2, pending_response, futures, nfut>>

\* info_response.max_chunk_size raises: info_response is None or of another kind
raised2 ==
    /\ pc2' = "raised"
    /\ awaited2' = 0
    /\ UNCHANGED <<pc, awaited>>
    /\ UNCHANGED <<request2, tx_frame2, offset2, pending_response, futures, nfut>>

\* GET /run-code is served while main is suspended in a request or later
run_code ==
    /\ pc2 = "idle"
    /\ pc \notin {"main", "exited"}
    /\ send_request2(ClearSlotRequest(EXAMPLE_SLOT), ClearSlotResponse_ID, info_response)
    /\ UNCHANGED <<upload_i2, running_crc2>>
    /\ MainUnchanged

run_code_start ==
    /\ pc # "exited"
    /\ Resumed2(ClearSlotRequest_ID)
    /\ send_request2(StartFileUploadRequest(FileName, EXAMPLE_SLOT,
                                            crc(program, Word(0, 0))),
                     StartFileUploadResponse_ID, info_response)
    /\ UNCHANGED <<upload_i2, running_crc2>>
    /\ MainUnchanged

next_chunk2(n, c) ==
    IF info_response = None \/ not_info(info_response)
    THEN raised2 /\ UNCHANGED <<upload_i2, running_crc2>>
    ELSE IF n < Len(program)
    THEN LET chunk == chunk_at(program, n, info_response.max_chunk_size)
             new_crc == crc(chunk, c)
         IN  /\ upload_i2' = n
             /\ running_crc2' = new_crc
             /\ send_request2(TransferChunkRequest(new_crc, chunk),
                              TransferChunkResponse_ID, info_response)
    ELSE /\ send_request2(ProgramFlowRequest(FALSE, EXAMPLE_SLOT), ProgramFlowResponse_ID,
                          info_response)
         /\ upload_i2' = n
         /\ running_crc2' = c

run_code_first_chunk ==
    /\ pc # "exited"
    /\ Resumed2(StartFileUploadRequest_ID)
    /\ IF start_upload_failed(Result2)
       THEN sys_exit2 /\ UNCHANGED <<upload_i2, running_crc2>>
       ELSE next_chunk2(0, Word(0, 0))
    /\ MainUnchanged

run_code_next_chunk ==
    /\ pc # "exited"
    /\ Resumed2(TransferChunkRequest_ID)
    /\ IF chunk_failed(Result2)
       THEN sys_exit2 /\ UNCHANGED <<upload_i2, running_crc2>>
       ELSE next_chunk2(upload_i2 + info_response.max_chunk_size, running_crc2)
    /\ MainUnchanged

\* the program start response; then runCode returns
run_code_done ==
    /\ pc # "exited"
    /\ Resumed2(ProgramFlowRequest_ID)
    /\ IF ~Result2.success
       THEN sys_exit2
       ELSE /\ pc2' = "returned"
            /\ awaited2' = 0
            /\ UNCHANGED <<pc, awaited>>
            /\ UNCHANGED <<request2, tx_frame2, offset2, pending_response, futures, nfut>>
    /\ UNCHANGED <<upload_i2, running_crc2>>
    /\ MainUnchanged

\* ------------------------------------------------------------------------
\* Parts of the state a specification does not use
\* ------------------------------------------------------------------------
CodecIdle == data = <<>> /\ buffer = Ok(<<>>) /\ stage = "idle"
CrcIdle ==
    /\ s1 = <<>> /\ s2 = <<>> /\ whole = Word(0, 0) /\ running = Word(0, 0)
    /\ crc_stage = "idle"
\* no /run-code request has been served
RunIdle ==
    /\ pc2 = "idle" /\ request2 = -1 /\ tx_frame2 = <<>> /\ offset2 = 0 /\ awaited2 = 0
    /\ upload_i2 = 0 /\ running_crc2 = Word(0, 0)
AppIdle ==
    /\ pc = "idle" /\ request = -1 /\ tx_frame = <<>> /\ offset = 0 /\ awaited = 0
    /\ upload_i = 0 /\ running_crc = Word(0, 0)
    /\ pending_response = [id |-> -1, fut |-> 1] /\ futures = 1 :> NewFuture
    /\ nfut = 1 /\ info_response = None /\ program = <<>> /\ connected = FALSE
    /\ stop_event = FALSE /\ sent = <<>> /\ returned = <<>> /\ on_data_error = "none"
    /\ last_in = [ID |-> -1, fut |-> 0, delimited |-> FALSE] /\ lost_at = ""
    /\ RunIdle

\* ------------------------------------------------------------------------
\* The application: connected, notifications started, main about to run
\* ------------------------------------------------------------------------
Programs == {SubSeq(ProgramText, 1, n) : n \in 0..Min(MaxProgramLen, Len(ProgramText))}

Init ==
    /\ pc = "main"
    /\ request = -1
    /\ tx_frame = <<>>
    /\ offset = 0
    /\ awaited = 0
    /\ pending_response = [id |-> -1, fut |-> 1]
    /\ futures = 1 :> NewFuture
    /\ nfut = 1
    /\ info_response = None
    /\ program \in Programs
    /\ upload_i = 0
    /\ running_crc = Word(0, 0)
    /\ sent = <<>>
    /\ returned = <<>>
    /\ connected = TRUE
    /\ stop_event = FALSE
    /\ on_data_error = "none"
    /\ last_in = [ID |-> -1, fut |-> 0, delimited |-> FALSE]
    /\ lost_at = ""
    /\ RunIdle
    /\ CodecIdle
    /\ CrcIdle

Caller ==
    \/ main_info
    \/ main_notifications
    \/ upload_clear
    \/ upload_start
    \/ upload_first_chunk
    \/ upload_next_chunk
    \/ upload_done
    \/ main_completed
    \/ write_done
    \/ write_failed

Next == Caller \/ OnData \/ on_disconnect

Spec == Init /\ [][Next]_vars

\* the event loop runs a task that is ready to run
FairSpec == Spec /\ WF_vars(Caller)

\* ------------------------------------------------------------------------
\* The server of main.py: main, and one runCode that overlaps with it
\* ------------------------------------------------------------------------
OverlapInit == Init /\ Len(program) = MaxOverlapLen

Caller2 ==
    \/ run_code
    \/ run_code_start
    \/ run_code_first_chunk
    \/ run_code_next_chunk
    \/ run_code_done
    \/ write_done2

\* the packets of the hub: one InfoResponse, every status response with either
\* outcome, a notification
OverlapMessages ==
    {[Message(InfoResponse_ID) EXCEPT !.success = TRUE,
                                      !.max_packet_size = LargePacketSize,
                                      !.max_chunk_size = 1]}
    \cup {[Message(id) EXCEPT !.success = ok] : id \in StatusResponseIDs, ok \in BOOLEAN}
    \cup {[Message(DeviceNotification_ID) EXCEPT !.payload = <<0, 7>>]}

OverlapPackets == {pack(serialize(m)) : m \in OverlapMessages}

OnDataOverlap == \E packet \in OverlapPackets : on_data(packet)

\* the connection stays up: no on_disconnect, no failing write
Caller1 ==
    \/ main_info
    \/ main_notifications
    \/ upload_clear
    \/ upload_start
    \/ upload_first_chunk
    \/ upload_next_chunk
    \/ upload_done
    \/ write_done

OverlapNext == Caller1 \/ Caller2 \/ OnDataOverlap

SpecOverlap == OverlapInit /\ [][OverlapNext]_vars

\* ------------------------------------------------------------------------
\* Codec harness: the functions of cobs.py applied to sample inputs
\* ------------------------------------------------------------------------
Run(b, n) == [i \in 1..n |-> b]

\* input segments: single bytes of each class, and runs around the block size
Segments ==
    {<<b>> : b \in {0, 1, 2, 3, 255}}
    \cup {Run(7, MAX_BLOCK_SIZE - 1), Run(7, MAX_BLOCK_SIZE)}

RECURSIVE SegSeqs(_)
SegSeqs(n) ==
    IF n = 0 THEN {<<>>}
    ELSE LET shorter == SegSeqs(n - 1)
         IN  shorter \cup {s \o g : s \in shorter, g \in Segments}

CodecInputs == SegSeqs(MaxSegs)

CodecInit ==
    /\ data \in CodecInputs
    /\ buffer = Ok(data)
    /\ stage = "input"
    /\ CrcIdle
    /\ AppIdle

Encode ==
    /\ stage = "input"
    /\ buffer' = Ok(encode(data))
    /\ stage' = "encoded"
    /\ UNCHANGED <<data, crc_vars, app_vars>>

Decode ==
    /\ stage = "encoded"
    /\ buffer' = decode(buffer.value)
    /\ stage' = "decoded"
    /\ UNCHANGED <<data, crc_vars, app_vars>>

Pack ==
    /\ stage = "input"
    /\ buffer' = Ok(pack(data))
    /\ stage' = "packed"
    /\ UNCHANGED <<data, crc_vars, app_vars>>

Unpack ==
    /\ stage = "packed"
    /\ buffer' = unpack(buffer.value)
    /\ stage' = "unpacked"
    /\ UNCHANGED <<data, crc_vars, app_vars>>

\* decode applied to bytes that no encode produced
DecodeRaw ==
    /\ stage = "input"
    /\ buffer' = decode(data)
    /\ stage' = "decoded_raw"
    /\ UNCHANGED <<data, crc_vars, app_vars>>

CodecNext == Encode \/ Decode \/ Pack \/ Unpack \/ DecodeRaw

SpecCodec == CodecInit /\ [][CodecNext]_vars

\* ------------------------------------------------------------------------
\* Checksum harness: crc applied to s1 + s2 at once and to s1, then s2
\* ------------------------------------------------------------------------
CrcBytes == {0, 165}

RECURSIVE ByteSeqs(_, _)
ByteSeqs(B, n) ==
    IF n = 0 THEN {<<>>}
    ELSE LET shorter == ByteSeqs(B, n - 1)
         IN  shorter \cup {Append(s, b) : s \in {t \in shorter : Len(t) = n - 1}, b \in B}

CrcInit ==
    /\ \E s \in ByteSeqs(CrcBytes, MaxCrcLen) : \E k \in 0..Len(s) :
           /\ s1 = SubSeq(s, 1, k)
           /\ s2 = SubSeq(s, k + 1, Len(s))
    /\ whole = Word(0, 0)
    /\ running = Word(0, 0)
    /\ crc_stage = "input"
    /\ CodecIdle
    /\ AppIdle

CrcWhole ==
    /\ crc_stage = "input"
    /\ whole' = crc(s1 \o s2, Word(0, 0))
    /\ crc_stage' = "whole"
    /\ UNCHANGED <<s1, s2, running, codec_vars, app_vars>>

CrcFirst ==
    /\ crc_stage = "whole"
    /\ running' = crc(s1, Word(0, 0))
    /\ crc_stage' = "first"
    /\ UNCHANGED <<s1, s2, whole, codec_vars, app_vars>>

CrcSecond ==
    /\ crc_stage = "first"
    /\ running' = crc(s2, running)
    /\ crc_stage' = "second"
    /\ UNCHANGED <<s1, s2, whole, codec_vars, app_vars>>

CrcNext == CrcWhole \/ CrcFirst \/ CrcSecond

SpecCrc == CrcInit /\ [][CrcNext]_vars

\* ------------------------------------------------------------------------
\* Claims about cobs.py
\* ------------------------------------------------------------------------
\* C1: for every byte sequence S, decode(encode(S)) returns S
C1_RoundTrip == stage = "decoded" => buffer = Ok(data)
\* a decoded input with a full block ended by a delimiter and a 0xFF block
C1_Witness ==
    /\ stage = "decoded"
    /\ buffer = Ok(data)
    /\ Len(data) >= 2 * MAX_BLOCK_SIZE
    /\ \E i \in 1..Len(data) : data[i] <= DELIMITER

\* C2: for every byte sequence S, unpack(pack(S)) returns S
C2_PackRoundTrip == stage = "unpacked" => buffer = Ok(data)
C2_Witness ==
    /\ stage = "unpacked"
    /\ buffer = Ok(data)
    /\ Len(data) > MAX_BLOCK_SIZE
    /\ data[1] = 3

\* C3: every byte of encode(S) is strictly greater than the delimiter 0x02
C3_NoDelimiterClass ==
    stage = "encoded" => \A i \in 1..Len(buffer.value) : buffer.value[i] > DELIMITER
C3_Witness ==
    /\ stage = "encoded"
    /\ \E i \in 1..Len(data) : data[i] = 0
    /\ \E i \in 1..Len(data) : data[i] = DELIMITER
    /\ Len(buffer.value) > Len(data)

\* C4: pack(S) ends with the delimiter 0x02 and holds no other 0x02
C4_DelimiterOnlyAtEnd ==
    stage = "packed" =>
        /\ Len(buffer.value) >= 1
        /\ buffer.value[Len(buffer.value)] = DELIMITER
        /\ \A i \in 1..(Len(buffer.value) - 1) : buffer.value[i] # DELIMITER
C4_Witness ==
    /\ stage = "packed"
    /\ \E i \in 1..Len(data) : data[i] = DELIMITER
    /\ \E i \in 1..Len(data) : data[i] = 1
    /\ Len(buffer.value) >= 4

\* ------------------------------------------------------------------------
\* Claims about crc.py
\* ------------------------------------------------------------------------
\* C10: when Len(S1) is a multiple of 4, crc(S1 + S2, 0) = crc(S2, crc(S1, 0))
C10_RunningCrc ==
    (crc_stage = "second" /\ Len(s1) % CRC_ALIGN = 0) => running = whole
\* a non-empty aligned first part followed by a part that needs padding
C10_Witness ==
    /\ crc_stage = "second"
    /\ Len(s1) = CRC_ALIGN
    /\ Len(s2) % CRC_ALIGN # 0
    /\ running = whole
    /\ running # crc(s2, Word(0, 0))

\* ------------------------------------------------------------------------
\* Claims about the correlator (send_request, on_data, on_disconnect)
\* ------------------------------------------------------------------------
PendingFuture == futures[pending_response.fut]

\* C5: while a request is pending, a well-formed inbound message whose ID differs
\* from the expected one leaves the future unresolved and the expected ID unchanged
C5_NonMatchingLeavesPending ==
    [][\A packet \in InboundPackets :
          (/\ ~PendingFuture.done
           /\ Received[packet].message # None
           /\ Received[packet].message.ID # pending_response.id
           /\ on_data(packet))
          => (/\ pending_response' = pending_response
              /\ futures' = futures
              /\ ~futures'[pending_response'.fut].done)]_vars
\* the caller awaits, on_data has handled another kind of message since the
\* request was made, and the future is still unresolved
C5_Witness ==
    /\ pc = "awaiting"
    /\ awaited = pending_response.fut
    /\ last_in.fut = pending_response.fut
    /\ last_in.ID \notin {-1, pending_response.id}
    /\ ~PendingFuture.done

\* C6: a message with the expected ID that arrives after the request was resolved,
\* before a new request, is ignored: the result is unchanged and on_data returns
\* normally
C6_DuplicateIgnored ==
    [][\A packet \in InboundPackets :
          (/\ PendingFuture.done
           /\ Received[packet].message # None
           /\ Received[packet].message.ID = pending_response.id
           /\ on_data(packet))
          => (/\ futures' = futures
              /\ on_data_error' = "none")]_vars

\* C7: a disconnect while the caller awaits its response leads to the caller
\* being resumed (the claim: with a transport failure)
C7_DisconnectResumesCaller ==
    (lost_at = "awaiting" /\ pc = "awaiting" /\ ~futures[awaited].done)
        ~> (pc # "awaiting")

\* ------------------------------------------------------------------------
\* Claims about file_upload
\* ------------------------------------------------------------------------
IsChunkRequest(m) == m.ID = TransferChunkRequest_ID
ChunksSent == SelectSeq(sent, IsChunkRequest)
IsStartRequest(m) == m.ID = StartFileUploadRequest_ID
StartSent == SelectSeq(sent, IsStartRequest)
FlowSent == \E k \in 1..Len(sent) : sent[k].ID = ProgramFlowRequest_ID

RECURSIVE Concat(_, _)
Concat(chunks, n) == IF n = 0 THEN <<>> ELSE Concat(chunks, n - 1) \o chunks[n].payload

CeilDiv(a, b) == (a + b - 1) \div b

\* C8: the chunks sent are the consecutive slices of the payload, C bytes each but
\* the last of 1..C bytes; once all are acknowledged there are ceil(L/C) of them
\* and together they are the payload
C8_Chunking ==
    LET chunks == ChunksSent
        C == info_response.max_chunk_size
        L == Len(program)
    IN  /\ \A k \in 1..Len(chunks) :
              /\ chunks[k].payload = SubSeq(program, (k - 1) * C + 1, Min(k * C, L))
              /\ Len(chunks[k].payload) \in 1..C
              /\ k < Len(chunks) => Len(chunks[k].payload) = C
        /\ FlowSent =>
              /\ Len(chunks) = CeilDiv(L, C)
              /\ Concat(chunks, Len(chunks)) = program
\* three chunks, the last one shorter
C8_Witness ==
    /\ FlowSent
    /\ Len(ChunksSent) = 3
    /\ info_response.max_chunk_size > 1
    /\ Len(ChunksSent[3].payload) < info_response.max_chunk_size

\* C9: with a chunk size that is a multiple of 4, the checksum sent with the last
\* chunk is the checksum of the whole payload sent with the start request
C9_RunningCrcIsWhole ==
    LET chunks == ChunksSent
        C == info_response.max_chunk_size
    IN  \A k \in 1..Len(chunks) :
            (C % CRC_ALIGN = 0 /\ k * C >= Len(program)) =>
                /\ chunks[k].crc = StartSent[1].crc
                /\ chunks[k].crc = crc(program, Word(0, 0))
\* several chunks, the last one needing padding
C9_Witness ==
    /\ info_response.max_chunk_size % CRC_ALIGN = 0
    /\ Len(ChunksSent) >= 2
    /\ Len(program) % CRC_ALIGN # 0
    /\ Len(ChunksSent) * info_response.max_chunk_size >= Len(program)
    /\ ChunksSent[Len(ChunksSent)].crc = StartSent[1].crc

\* ------------------------------------------------------------------------
\* Claims about the failure paths of file_upload
\* ------------------------------------------------------------------------
\* the k-th request of the session was answered, and the answer said failure
Refused(k) == k <= Len(returned) /\ ~returned[k].success

\* C11: once the start request was answered with success = false the session is
\* over: the start request stays the last request sent, so no chunk and no
\* program start request follows, and the caller has exited
C11_StartRefusedEndsSession ==
    \A k \in 1..Len(sent) :
        (sent[k].ID = StartFileUploadRequest_ID /\ Refused(k)) =>
            /\ Len(sent) = k
            /\ ChunksSent = <<>>
            /\ ~FlowSent
            /\ pc = "exited"
\* the start request was answered with a StartFileUploadResponse that failed
C11_Witness ==
    /\ Len(sent) = 4
    /\ sent[4].ID = StartFileUploadRequest_ID
    /\ Len(returned) = 4
    /\ returned[4].ID = StartFileUploadResponse_ID
    /\ ~returned[4].success
    /\ Len(program) > 0
    /\ pc = "exited"


\* crc(EXAMPLE_PROGRAM), for each program of the model
ProgramCrc == [p \in Programs |-> crc(p, Word(0, 0))]

\* C12: whatever the success field of the clear response, the caller goes on and
\* sends the same start request (file name, slot, checksum of the program)
C12_ClearFailureNotFatal ==
    \A k \in 1..Len(returned) :
        sent[k].ID = ClearSlotRequest_ID =>
            /\ returned[k].ID = ClearSlotResponse_ID
            /\ Len(sent) > k
            /\ sent[k + 1] = StartFileUploadRequest(FileName, EXAMPLE_SLOT,
                                                    ProgramCrc[program])
\* the clear request was refused and the upload went on to its chunks
C12_Witness ==
    /\ Len(sent) >= 5
    /\ sent[3].ID = ClearSlotRequest_ID
    /\ Refused(3)
    /\ sent[4].ID = StartFileUploadRequest_ID
    /\ sent[5].ID = TransferChunkRequest_ID


\* C13: once a chunk was answered with success = false the session is over: that
\* chunk request stays the last request sent, so it is not sent again, no other
\* chunk follows and no program start request is sent; the caller has exited
C13_ChunkRefusedAborts ==
    \A k \in 1..Len(sent) :
        (sent[k].ID = TransferChunkRequest_ID /\ Refused(k)) =>
            /\ Len(sent) = k
            /\ ~FlowSent
            /\ pc = "exited"
\* the first chunk was acknowledged, the second one refused, with more of the
\* program left to send
C13_Witness ==
    /\ Len(sent) = 6
    /\ sent[6].ID = TransferChunkRequest_ID
    /\ Len(returned) = 6
    /\ returned[5].ID = TransferChunkResponse_ID /\ returned[5].success
    /\ returned[6].ID = TransferChunkResponse_ID /\ ~returned[6].success
    /\ upload_i + info_response.max_chunk_size < Len(program)
    /\ pc = "exited"


\* ------------------------------------------------------------------------
\* Claims about the order of the requests
\* ------------------------------------------------------------------------
\* C14: the first packet of a chunk request that follows another chunk request is
\* written only when the future made for the previous chunk request has been
\* resolved, by on_data, with a TransferChunkResponse; at any time at most one
\* request of the session has no response returned yet
C14_ChunksPingPong ==
    [][/\ Len(sent') <= Len(returned') + 1
       /\ (sent' # sent /\ request = TransferChunkRequest_ID
                        /\ request' = TransferChunkRequest_ID) =>
              /\ pc = "awaiting"
              /\ awaited = pending_response.fut
              /\ awaited = Len(sent) + 1
              /\ futures[awaited].done
              /\ futures[awaited].result.ID = TransferChunkResponse_ID
              /\ returned' = Append(returned, futures[awaited].result)
       /\ (~PendingFuture.done /\ futures' # futures /\ sent' = sent) =>
              \E packet \in InboundPackets :
                  /\ Received[packet].message.ID = pending_response.id
                  /\ on_data(packet)
                  /\ futures'[pending_response.fut].result = Received[packet].message
      ]_vars
\* the second chunk request is being written in several packets, after the
\* response to the first one was returned to the caller
C14_Witness ==
    /\ Len(ChunksSent) = 2
    /\ Len(returned) = 5
    /\ returned[5].ID = TransferChunkResponse_ID
    /\ pc = "sending"
    /\ offset < Len(tx_frame)
    /\ ~PendingFuture.done


\* ------------------------------------------------------------------------
\* Claims about the packets on_data drops
\* ------------------------------------------------------------------------
\* C15: on_data discards a packet whose last byte is not the delimiter: nothing
\* is deserialized from it, no exception is raised, the pending slot and its
\* future are unchanged, and nothing else of the program's state changes, so
\* later packets are handled as if it had not arrived
C15_UndelimitedDiscarded ==
    [][\A packet \in InboundPackets :
          (packet[Len(packet)] # DELIMITER /\ on_data(packet)) =>
              /\ last_in'.ID = -1
              /\ on_data_error' = "none"
              /\ pending_response' = pending_response
              /\ futures' = futures
              /\ UNCHANGED <<pc, request, tx_frame, offset, awaited, nfut, info_response,
                             upload_i, running_crc, sent, returned, connected,
                             stop_event>>]_vars
\* the caller awaits its response, and the last packet handed to on_data since
\* the request was made had no delimiter at its end
C15_Witness ==
    /\ pc = "awaiting"
    /\ awaited = pending_response.fut
    /\ ~PendingFuture.done
    /\ last_in = [ID |-> -1, fut |-> pending_response.fut, delimited |-> FALSE]
    /\ on_data_error = "none"
    /\ request = TransferChunkRequest_ID


\* the kind of the k-th request of a session that sends n chunks
RequestOrder(k, n) ==
    IF k = 1 THEN InfoRequest_ID
    ELSE IF k = 2 THEN DeviceNotificationRequest_ID
    ELSE IF k = 3 THEN ClearSlotRequest_ID
    ELSE IF k = 4 THEN StartFileUploadRequest_ID
    ELSE IF k <= 4 + n THEN TransferChunkRequest_ID
    ELSE IF k = 5 + n THEN ProgramFlowRequest_ID
    ELSE -1

\* C16: the requests are sent in the order InfoRequest, DeviceNotificationRequest,
\* ClearSlotRequest, StartFileUploadRequest, the chunk requests, ProgramFlowRequest;
\* each one is sent after the response of its kind to the previous one was
\* returned to the caller, and the ProgramFlowRequest after every chunk was
\* acknowledged with success
C16_RequestOrder ==
    LET n == IF info_response = None THEN 0
             ELSE CeilDiv(Len(program), info_response.max_chunk_size)
    IN  /\ Len(sent) <= Len(returned) + 1
        /\ Len(returned) <= Len(sent)
        /\ \A k \in 1..Len(sent) : sent[k].ID = RequestOrder(k, n)
        \* the ID of a response is the ID of its request plus one
        /\ \A k \in 1..Len(returned) : returned[k].ID = sent[k].ID + 1
        /\ FlowSent =>
              /\ Len(ChunksSent) = n
              /\ \A k \in 1..Len(sent) :
                    sent[k].ID = TransferChunkRequest_ID =>
                        (returned[k].ID = TransferChunkResponse_ID /\ returned[k].success)
\* a session of three chunks that ran to its end
C16_Witness ==
    /\ Len(sent) = 8
    /\ sent[8].ID = ProgramFlowRequest_ID
    /\ Len(returned) = 8
    /\ returned[8].success
    /\ pc = "stop_wait"


\* C17: a packet that ends in the delimiter and fails frame decoding
\* (cobs.unpack) or deserialization is dropped inside on_data: no exception
\* escapes the handler, and the pending slot and its future are unchanged
C17_UndecodableDropped ==
    [][\A packet \in InboundPackets :
          (/\ packet[Len(packet)] = DELIMITER
           /\ Received[packet].message = None
           /\ on_data(packet))
          => (/\ on_data_error' = "none"
              /\ pending_response' = pending_response
              /\ futures' = futures)]_vars


\* ------------------------------------------------------------------------
\* Claims about the blocks of cobs.py
\* ------------------------------------------------------------------------
\* some code word of d, the first at pos, announces a block that is longer than
\* what is left of d (the block size counts the code word)
RECURSIVE overrun(_, _)
overrun(d, pos) ==
    IF pos > Len(d) THEN FALSE
    ELSE LET block == unescape(d[pos]).block
         IN  pos + block - 1 > Len(d) \/ overrun(d, pos + block)

\* C18: decode fails, instead of returning bytes, on every input in which a code
\* word announces a block longer than the data that is left
C18_TruncatedBlockFails ==
    (stage = "decoded_raw" /\ overrun(data, 1)) => buffer.err # "none"

\* the length, code word included, of the longest block of e from pos on
RECURSIVE longest_block(_, _)
longest_block(e, pos) ==
    IF pos > Len(e) THEN 0
    ELSE LET block == Min(unescape(e[pos]).block, Len(e) - pos + 1)
             rest == longest_block(e, pos + block)
         IN  IF block > rest THEN block ELSE rest

C20_ExpectationBeforeTransmission ==
    [][/\ sent' # sent =>
              /\ pc' = "sending" /\ offset' > 0
              /\ pending_response'.id = request' + 1
              /\ pending_response'.fut \notin DOMAIN futures
              /\ pending_response'.fut = Len(sent') + 1
              /\ ~futures'[pending_response'.fut].done
       /\ \A packet \in InboundPackets :
              (/\ pc \in {"sending", "awaiting"}
               /\ ~futures[Len(sent) + 1].done
               /\ Received[packet].message.ID = request + 1
               /\ on_data(packet))
              => futures'[Len(sent) + 1] =
                     [done |-> TRUE, result |-> Received[packet].message]
       /\ (pc = "sending" /\ pc' = "awaiting") => awaited' = Len(sent) + 1
       /\ returned' # returned =>
              /\ awaited = Len(sent) + 1
              /\ futures[awaited].done
              /\ futures[awaited].result.ID = request + 1
              /\ returned' = Append(returned, futures[awaited].result)
      ]_vars
\* the response arrived between two packets of the frame of its request
C20_Witness ==
    /\ pc = "sending"
    /\ offset < Len(tx_frame)
    /\ PendingFuture.done
    /\ PendingFuture.result.ID = request + 1
    /\ pending_response.fut = Len(sent) + 1
    /\ last_in = [ID |-> request + 1, fut |-> pending_response.fut, delimited |-> TRUE]


\* ------------------------------------------------------------------------
\* Claims about the priority byte
\* ------------------------------------------------------------------------
\* C22: the first byte of pack(S) is never the priority marker 0x01, so unpack
\* starts at the first byte of a frame that pack produced
C22_NoPriorityByte ==
    stage = "packed" =>
        /\ buffer.value[1] # 1
        /\ start_index(buffer.value) = 0
\* the smallest code word: S starts with a 0, so the frame starts with 3 xor 3
C22_Witness ==
    /\ stage = "packed"
    /\ Len(data) >= 2
    /\ data[1] = 0
    /\ buffer.value[1] = 0


\* ------------------------------------------------------------------------
\* Claims about overlapping requests
\* ------------------------------------------------------------------------
\* main, resp. runCode, awaits a future that is unresolved and is not the one in
\* the pending slot
Orphaned1 == pc = "awaiting" /\ awaited # pending_response.fut /\ ~futures[awaited].done
Orphaned2 == pc2 = "awaiting" /\ awaited2 # pending_response.fut /\ ~futures[awaited2].done

\* C21: a send_request made while another coroutine awaits its unresolved future
\* replaces the pending slot, so that the slot no longer holds that future; from
\* then on no step, whatever message on_data receives, resolves the future or
\* resumes the coroutine that awaits it (it only ends with the process)
C21_OverwrittenCallerNeverResumed ==
    [][/\ (pc = "awaiting" /\ ~futures[awaited].done
                          /\ pending_response' # pending_response) =>
              (pending_response'.fut # awaited /\ Orphaned1')
       /\ (pc2 = "awaiting" /\ ~futures[awaited2].done
                           /\ pending_response' # pending_response) =>
              (pending_response'.fut # awaited2 /\ Orphaned2')
       /\ Orphaned1 => (pc' = "exited" \/ (Orphaned1' /\ awaited' = awaited))
       /\ Orphaned2 => (Orphaned2' /\ awaited2' = awaited2)
      ]_vars
\* main still awaits the response to its request although a response of that
\* kind has arrived since, and runCode, which took the slot, has finished
C21_Witness ==
    /\ Orphaned1
    /\ last_in.ID = request + 1
    /\ last_in.fut # awaited
    /\ pc2 = "returned"


====
